---- MODULE Spec2Model ----
(***************************************************************************)
(* Progress & Assessment Engine of the learning-platform backend.          *)
(*                                                                         *)
(* The record store is modelled as its tables: each table is a sequence of *)
(* rows and a row's primary key is its index, as the SERIAL / gorm.Model   *)
(* ID assigns it.  A handler is one action; a query `Where(..).First(..)`  *)
(* returns the matching row with the lowest primary key.                   *)
(*                                                                         *)
(* Times are whole seconds.  float64 percentages are kept as the exact     *)
(* rational number the float is the rounding of, or as NaN / +Inf where    *)
(* the division has a zero denominator.                                    *)
(***************************************************************************)
EXTENDS Integers, Sequences, FiniteSets, TLC

VARIABLES
    users,          \* table users: [username, password_hash]
    tests,          \* table tests: [author_id]
    questions,      \* table test_questions: [test_id, options, correct_answer]
    accessSettings, \* table test_access_settings: [test_id, admins, attempts_allowed]
    testProgress,   \* table user_test_progress
    userProgress,   \* table user_progress: [user_id, last_active, streak_days]
    loginHistory,   \* table login_history: [user_id, login_time]
    courses,        \* table courses: [author_id]
    lessons,        \* table lessons: [course_id]
    courseProgress, \* table user_course_progress
    courseEvents,   \* the progress events applied so far, oldest first
    inflight,       \* the requests being handled step by step, per connection
    clock,          \* the latest instant the server has read from time.Now()
    resp            \* the latest request and the response to it

vars == <<users, tests, questions, accessSettings, testProgress,
          userProgress, loginHistory, courses, lessons, courseProgress,
          courseEvents, inflight, clock, resp>>

courseVars == <<courses, lessons, courseProgress, courseEvents>>

testVars == <<tests, questions, accessSettings, testProgress>>
authVars == <<userProgress, loginHistory>>

-----------------------------------------------------------------------------
(* Bounds of the model *)

MaxUsers == 2
MaxTests == 2
MaxQuestions == 2
MaxOptions == 2
MaxAnswers == 2
MaxAllowed == 2
MaxLogins == 3
MaxJitter == 1
MaxClock == 345602
MaxRequests == 2
MaxCourses == 2
MaxLessons == 2
MaxEvents == 3
CalendarMonths == 24

(* Graded attempts in a run: one more than the largest quota. *)
MaxAttempts == MaxAllowed + 1

(* time.Hour * 48, in seconds *)
FortyEightHours == 172800

(* AttemptsAllowed of the settings CreateTest makes *)
DefaultAttemptsAllowed == 1

UsernamePool == <<"alice", "bob", "carol", "dave">>
Usernames == {UsernamePool[i] : i \in 1..MaxUsers}
Passwords == {"secret", "guess"}

-----------------------------------------------------------------------------
(* Values *)

NaN == [nan |-> TRUE]
PosInf == [inf |-> TRUE]

RECURSIVE GCD(_, _)
GCD(a, b) == IF b = 0 THEN a ELSE GCD(b, a % b)

(* The rational num/den in lowest terms, den > 0. *)
Ratio(num, den) ==
    LET g == GCD(num, den) IN [n |-> num \div g, d |-> den \div g]

(* float64(a) / float64(b) * 100 for integers a >= 0, b >= 0. *)
FloatPercent(a, b) ==
    IF b = 0
    THEN IF a = 0 THEN NaN ELSE PosInf
    ELSE Ratio(a * 100, b)

IsNumber(x) == x # NaN /\ x # PosInf

(* c.JSON of a body that holds the float x: encoding/json has no encoding *)
(* of NaN and of the infinities, the handler returns its error and the    *)
(* request is answered 500.                                               *)
JSON(x) == IF IsNumber(x) THEN 200 ELSE 500

(* x <= k for a rational x and an integer k. *)
RatioLeq(x, k) == x.n <= k * x.d

(* .First(&row) over the primary keys a Where clause selects: the lowest *)
(* of them, 0 for gorm.ErrRecordNotFound.                                *)
FirstOf(hits) ==
    IF hits = {} THEN 0 ELSE CHOOSE i \in hits : \A j \in hits : i <= j

(* DB.Save(&row): INSERT when the primary key is zero, UPDATE of every *)
(* column otherwise.                                                   *)
Save(table, id, row) ==
    IF id = 0 THEN Append(table, row) ELSE [table EXCEPT ![id] = row]

(* An exchange: the handler, the status it answers with, the user and the *)
(* test of the request, and the answers submitted (<<>> where none are).  *)
Exchange(op, status, user, target, answers) ==
    [op |-> op, status |-> status, user |-> user, target |-> target,
     answers |-> answers]

Response(op, status, user, target) == Exchange(op, status, user, target, <<>>)

(* An exchange with the fields of its request or response body. *)
Message(op, status, user, target, body) ==
    [op |-> op, status |-> status, user |-> user, target |-> target,
     answers |-> <<>>, body |-> body]

(* A response with a body. *)
Reply(op, status, user, body) == Message(op, status, user, 0, body)

(* A field of a JSON request body is {} when the body does not hold it *)
(* and {v} when it holds the value v. c.BodyParser leaves the zero     *)
(* value in the int field of a struct that the body does not hold.     *)
IntField(field) == IF field = {} THEN 0 ELSE CHOOSE v \in field : TRUE

(* The bodies that leave the field out or hold one of the values. *)
IntFields(values) == {{}} \cup {{v} : v \in values}

-----------------------------------------------------------------------------
(* No course has been created. *)
NoCourses ==
    /\ courses = <<>>
    /\ lessons = <<>>
    /\ courseProgress = <<>>
    /\ courseEvents = <<>>

(* No request is being handled. *)
Idle == [phase |-> "idle"]
NoRequests == [r \in 1..MaxRequests |-> Idle]

Init ==
    /\ users = <<>>
    /\ tests = <<>>
    /\ questions = <<>>
    /\ accessSettings = <<>>
    /\ testProgress = <<>>
    /\ userProgress = <<>>
    /\ loginHistory = <<>>
    /\ clock = 0
    /\ resp = Response("none", 0, 0, 0)
    /\ NoCourses
    /\ inflight = NoRequests

-----------------------------------------------------------------------------
(* Authentication *)

(* bcrypt.GenerateFromPassword / CompareHashAndPassword *)
Hash(password) == <<"bcrypt", password>>
CompareHashAndPassword(hash, password) == hash = Hash(password)

(* The admin routes are open to the user of id 1 only. *)
AdminMiddleware(userID) == userID = 1

(* A request carries the user id of a token issued by Register or Login. *)
TokenHolders == 1..Len(users)

(* DB.Where("username = ?", username).First(&user) *)
FindUser(username) ==
    FirstOf({i \in 1..Len(users) : users[i].username = username})

Register(username, password) ==
    /\ Len(users) < MaxUsers
    /\ IF FindUser(username) # 0
       THEN /\ resp' = Response("Register", 500, 0, 0)
            /\ UNCHANGED users
       ELSE /\ users' = Append(users, [username |-> username,
                                       password_hash |-> Hash(password)])
            /\ resp' = Response("Register", 200, Len(users) + 1, 0)
    /\ UNCHANGED <<courseVars, inflight, testVars, authVars, clock>>

(* DB.Where("user_id = ?", user.ID).First(&userProgress) *)
FindUserProgress(userID) ==
    FirstOf({i \in 1..Len(userProgress) : userProgress[i].user_id = userID})

(* A streak that starts at the zero value of the column. *)
NewUserProgressUnstarted(userID, now) ==
    [user_id |-> userID, last_active |-> now, streak_days |-> 0]

(* The record made for a user who has none. *)
NewUserProgress(userID, now) ==
    [user_id |-> userID, last_active |-> now, streak_days |-> 1]

(* A streak that lasts one day only. *)
StreakAfterOneDay(streakDays, lastActive, now) ==
    IF now - lastActive < FortyEightHours \div 2 THEN streakDays + 1 ELSE 1

(* A streak that is reset to the zero value of the column. *)
StreakAfterFromZero(streakDays, lastActive, now) ==
    IF now - lastActive < FortyEightHours THEN streakDays + 1 ELSE 0

(* A streak that also survives a pause of exactly 48 hours. *)
StreakAfterInclusive(streakDays, lastActive, now) ==
    IF now - lastActive <= FortyEightHours THEN streakDays + 1 ELSE 1

(* The streak after a login at instant now of a user last active at *)
(* lastActive: time.Since(lastActive) < 48*time.Hour.                *)
StreakAfter(streakDays, lastActive, now) ==
    IF now - lastActive < FortyEightHours THEN streakDays + 1 ELSE 1

(* A login written over the latest entry of the history. *)
CreateLoginHistoryOverLatest(history, userID, now) ==
    IF history = <<>>
    THEN <<[user_id |-> userID, login_time |-> now]>>
    ELSE [history EXCEPT ![Len(history)] =
              [user_id |-> userID, login_time |-> now]]

(* DB.Create(&loginHistory): one new row, after the rows stored. *)
CreateLoginHistory(history, userID, now) ==
    Append(history, [user_id |-> userID, login_time |-> now])

(* A refusal that is logged like a login. *)
InvalidCredentialsLogged(now) ==
    /\ resp' = Response("Login", 401, 0, 0)
    /\ loginHistory' = CreateLoginHistory(loginHistory, 0, now)
    /\ UNCHANGED <<userProgress, clock>>

(* "Invalid credentials": the handler returns before it writes anything. *)
InvalidCredentials(now) ==
    /\ resp' = Response("Login", 401, 0, 0)
    /\ UNCHANGED <<authVars, clock>>

(* now1, now2 and now3 are the handler's successive readings of time.Now(): *)
(* for the login history; for the new record's LastActive or, when a record *)
(* is stored, for time.Since; and for the stored record's new LastActive.   *)
Login(username, password, now1, now2, now3) ==
    /\ clock <= now1 /\ now1 <= now2 /\ now2 <= now3
    /\ now3 <= clock + MaxJitter
    /\ Len(loginHistory) < MaxLogins
    /\ LET uid == FindUser(username) IN
       IF uid = 0
       THEN InvalidCredentials(now1)
       ELSE IF ~CompareHashAndPassword(users[uid].password_hash, password)
       THEN InvalidCredentials(now1)
       ELSE LET pid == FindUserProgress(uid) IN
            /\ loginHistory' = CreateLoginHistory(loginHistory, uid, now1)
            /\ IF pid = 0
               THEN /\ userProgress' = Append(userProgress,
                            NewUserProgress(uid, now2))
                    /\ clock' = now2
               ELSE /\ userProgress' = Save(userProgress, pid,
                            [user_id |-> userProgress[pid].user_id,
                             last_active |-> now3,
                             streak_days |->
                                 StreakAfter(userProgress[pid].streak_days,
                                             userProgress[pid].last_active,
                                             now2)])
                    /\ clock' = now3
            /\ resp' = Response("Login", 200, uid, 0)
    /\ UNCHANGED <<courseVars, inflight, users, testVars>>

(* Time passes between two requests. *)
TimeSteps == {FortyEightHours - 1, FortyEightHours}

TimePasses(d) ==
    /\ clock + d <= MaxClock
    /\ clock' = clock + d
    /\ UNCHANGED <<courseVars, inflight, users, testVars, authVars, resp>>

-----------------------------------------------------------------------------
(* Tests: catalogue and access settings *)

TestIds == 1..MaxTests
QuestionIds == 1..MaxQuestions

(* DB.First(&test, testID) *)
TestExists(testID) == testID \in 1..Len(tests)

(* DB.Where("test_id = ?", testID).First(&accessSettings), and the has-one *)
(* row Preload("AccessSettings") loads.                                     *)
FindSettings(testID) ==
    FirstOf({i \in 1..Len(accessSettings) : accessSettings[i].test_id = testID})

(* A lookup by id alone, in whichever test the question is. *)
FindQuestionAnywhere(questionID, testID) ==
    FirstOf({i \in 1..Len(questions) : i = questionID})

(* DB.Where("id = ? AND test_id = ?", questionID, testID).First(&question) *)
FindQuestion(questionID, testID) ==
    FirstOf({i \in 1..Len(questions) :
                i = questionID /\ questions[i].test_id = testID})

(* len(test.Questions) after Preload("Questions") *)
NumQuestions(testID) ==
    Cardinality({i \in 1..Len(questions) : questions[i].test_id = testID})

(* strings.Contains(admins, strconv.Itoa(userID)): admins lists user ids, all *)
(* of one digit here, so the substring test is membership.                   *)
ContainsAdmin(admins, userID) == userID \in admins

(* settingsCreated is the outcome of DB.Create(&accessSettings), the    *)
(* second of two inserts that no transaction holds together: when it   *)
(* fails the request is answered 500 and the test row stays.           *)
CreateTest(userID, settingsCreated) ==
    /\ userID \in TokenHolders
    /\ Len(tests) < MaxTests
    /\ IF ~AdminMiddleware(userID)
       THEN /\ resp' = Response("CreateTest", 403, userID, 0)
            /\ UNCHANGED <<tests, accessSettings>>
       ELSE IF ~settingsCreated
       THEN /\ tests' = Append(tests, [author_id |-> userID])
            /\ resp' = Response("CreateTest", 500, userID, Len(tests) + 1)
            /\ UNCHANGED accessSettings
       ELSE /\ tests' = Append(tests, [author_id |-> userID])
            /\ accessSettings' = Append(accessSettings,
                    [test_id |-> Len(tests) + 1,
                     admins |-> {userID},
                     attempts_allowed |-> DefaultAttemptsAllowed])
            /\ resp' = Response("CreateTest", 200, userID, Len(tests) + 1)
    /\ UNCHANGED <<courseVars, inflight, users, questions, testProgress,
                   authVars, clock>>

(* options is the number of entries of the options array. *)
AddQuestion(userID, testID, options, correctAnswer) ==
    /\ userID \in TokenHolders
    /\ Len(questions) < MaxQuestions
    /\ IF ~AdminMiddleware(userID)
       THEN /\ resp' = Response("AddQuestion", 403, userID, testID)
            /\ UNCHANGED questions
       ELSE IF ~TestExists(testID)
       THEN /\ resp' = Response("AddQuestion", 404, userID, testID)
            /\ UNCHANGED questions
       ELSE IF tests[testID].author_id # userID
       THEN /\ resp' = Response("AddQuestion", 403, userID, testID)
            /\ UNCHANGED questions
       ELSE IF correctAnswer < 0 \/ correctAnswer >= options
       THEN /\ resp' = Response("AddQuestion", 400, userID, testID)
            /\ UNCHANGED questions
       ELSE /\ questions' = Append(questions,
                    [test_id |-> testID,
                     options |-> options,
                     correct_answer |-> correctAnswer])
            /\ resp' = Response("AddQuestion", 200, userID, testID)
    /\ UNCHANGED <<courseVars, inflight, users, tests, accessSettings,
                   testProgress, authVars, clock>>

(* options = -1 stands for a request without an options array (nil);   *)
(* correctAnswer is the correct_answer field of the body.              *)
UpdateQuestion(userID, testID, questionID, options, correctAnswer) ==
    /\ userID \in TokenHolders
    /\ LET body == [question_id |-> questionID, options |-> options,
                    correct_answer |-> correctAnswer]
           input == [CorrectAnswer |-> IntField(correctAnswer)]
       IN
       IF ~AdminMiddleware(userID)
       THEN /\ resp' = Message("UpdateQuestion", 403, userID, testID, body)
            /\ UNCHANGED questions
       ELSE IF ~TestExists(testID)
       THEN /\ resp' = Message("UpdateQuestion", 404, userID, testID, body)
            /\ UNCHANGED questions
       ELSE IF tests[testID].author_id # userID
       THEN /\ resp' = Message("UpdateQuestion", 403, userID, testID, body)
            /\ UNCHANGED questions
       ELSE IF FindQuestion(questionID, testID) = 0
       THEN /\ resp' = Message("UpdateQuestion", 404, userID, testID, body)
            /\ UNCHANGED questions
       ELSE LET question == questions[questionID] IN
            /\ questions' = [questions EXCEPT ![questionID] =
                    [test_id |-> question.test_id,
                     options |-> IF options # -1 THEN options
                                 ELSE question.options,
                     correct_answer |->
                         IF input.CorrectAnswer >= 0 THEN input.CorrectAnswer
                         ELSE question.correct_answer]]
            /\ resp' = Message("UpdateQuestion", 200, userID, testID, body)
    /\ UNCHANGED <<courseVars, inflight, users, tests, accessSettings,
                   testProgress, authVars, clock>>

(* admins = {} stands for a request whose admins string is empty;        *)
(* attemptsAllowed is the attempts_allowed field of the body. A test      *)
(* without a settings row has the zero settings loaded: saving them is an *)
(* INSERT of test_id 0, which the foreign key to tests refuses.           *)
UpdateTestSettings(userID, testID, admins, attemptsAllowed) ==
    /\ userID \in TokenHolders
    /\ LET body == [attempts_allowed |-> attemptsAllowed]
           input == [AttemptsAllowed |-> IntField(attemptsAllowed)]
       IN
       IF ~AdminMiddleware(userID)
       THEN /\ resp' = Message("UpdateTestSettings", 403, userID, testID, body)
            /\ UNCHANGED accessSettings
       ELSE IF ~TestExists(testID)
       THEN /\ resp' = Message("UpdateTestSettings", 404, userID, testID, body)
            /\ UNCHANGED accessSettings
       ELSE LET sid == FindSettings(testID)
                settings == IF sid = 0
                            THEN [test_id |-> 0, admins |-> {},
                                  attempts_allowed |-> 0]
                            ELSE accessSettings[sid]
            IN
            IF /\ tests[testID].author_id # userID
               /\ ~ContainsAdmin(settings.admins, userID)
            THEN /\ resp' = Message("UpdateTestSettings", 403, userID, testID,
                                    body)
                 /\ UNCHANGED accessSettings
            ELSE IF sid = 0
            THEN /\ resp' = Message("UpdateTestSettings", 500, userID, testID,
                                    body)
                 /\ UNCHANGED accessSettings
            ELSE /\ accessSettings' = Save(accessSettings, sid,
                        [test_id |-> settings.test_id,
                         admins |-> IF admins # {} THEN admins
                                    ELSE settings.admins,
                         attempts_allowed |->
                             IF input.AttemptsAllowed >= 0
                             THEN input.AttemptsAllowed
                             ELSE settings.attempts_allowed])
                 /\ resp' = Message("UpdateTestSettings", 200, userID, testID,
                                    body)
    /\ UNCHANGED <<courseVars, inflight, users, tests, questions,
                   testProgress, authVars, clock>>

-----------------------------------------------------------------------------
(* Test Attempt Grader *)

AnswerInputs == [question_id : QuestionIds, answer : 0..(MaxOptions - 1)]
AnswerLists == UNION {[1..n -> AnswerInputs] : n \in 0..MaxAnswers}

(* DB.Where("user_id = ? AND test_id = ?", userID, testID).First(&progress) *)
FindTestProgress(userID, testID) ==
    FirstOf({i \in 1..Len(testProgress) :
                /\ testProgress[i].user_id = userID
                /\ testProgress[i].test_id = testID})

(* The record the handler starts from when none is stored. *)
NewTestProgress(userID, testID) ==
    [user_id |-> userID,
     test_id |-> testID,
     questions_answered |-> 0,
     correct_answers |-> 0,
     score |-> Ratio(0, 1),
     attempts_used |-> 0,
     last_attempt |-> ""]

(* accessSettings.AttemptsAllowed as the handler reads it: the zero value *)
(* when the query finds no row (its error is not looked at).             *)
AttemptsAllowed(testID) ==
    IF FindSettings(testID) = 0 THEN 0
    ELSE accessSettings[FindSettings(testID)].attempts_allowed

(* The attempts graded so far, over all users and tests. *)
RECURSIVE SumAttempts(_)
SumAttempts(rows) ==
    IF rows = <<>> THEN 0 ELSE Head(rows).attempts_used + SumAttempts(Tail(rows))
AttemptsGraded == SumAttempts(testProgress)

(* A check that lets one more attempt through. *)
QuotaExceeded(attemptsUsed, attemptsAllowed) ==
    attemptsUsed > attemptsAllowed /\ attemptsAllowed > 0

(* A check that takes 0 for a quota like any other. *)
QuotaExhaustedAtZero(attemptsUsed, attemptsAllowed) ==
    attemptsUsed >= attemptsAllowed

QuotaExhausted(attemptsUsed, attemptsAllowed) ==
    attemptsUsed >= attemptsAllowed /\ attemptsAllowed > 0

(* The loop over input.Answers: answers[i] counts when its question is found *)
(* in this test and its answer is the question's correct answer.             *)
RECURSIVE CorrectAnswers(_, _)
CorrectAnswers(answers, testID) ==
    IF answers = <<>> THEN 0
    ELSE LET answer == Head(answers)
             qid == FindQuestion(answer.question_id, testID)
         IN  CorrectAnswers(Tail(answers), testID)
             + (IF qid = 0 THEN 0
                ELSE IF answer.answer = questions[qid].correct_answer THEN 1
                ELSE 0)

(* time.Now().Format(time.RFC3339): the instant to the second, as text. *)
FormatRFC3339(now) == <<"RFC3339", now>>

(* Grading that scores against the answers submitted. *)
GradeAttemptPerAnswer(progress, answers, testID, now) ==
    [user_id |-> progress.user_id,
     test_id |-> progress.test_id,
     questions_answered |-> Len(answers),
     correct_answers |-> CorrectAnswers(answers, testID),
     score |-> FloatPercent(CorrectAnswers(answers, testID), Len(answers)),
     attempts_used |-> progress.attempts_used + 1,
     last_attempt |-> FormatRFC3339(now)]

(* Grading that counts only the answers whose question was found. *)
GradeAttemptCountingFound(progress, answers, testID, now) ==
    [user_id |-> progress.user_id,
     test_id |-> progress.test_id,
     questions_answered |->
         Cardinality({i \in 1..Len(answers) :
                         FindQuestion(answers[i].question_id, testID) # 0}),
     correct_answers |-> CorrectAnswers(answers, testID),
     score |-> FloatPercent(CorrectAnswers(answers, testID),
                            NumQuestions(testID)),
     attempts_used |-> progress.attempts_used + 1,
     last_attempt |-> FormatRFC3339(now)]

(* Grading that counts an attempt only once the record exists. *)
GradeAttemptUncounted(progress, answers, testID, now) ==
    [user_id |-> progress.user_id,
     test_id |-> progress.test_id,
     questions_answered |-> Len(answers),
     correct_answers |-> CorrectAnswers(answers, testID),
     score |-> FloatPercent(CorrectAnswers(answers, testID),
                            NumQuestions(testID)),
     attempts_used |-> progress.attempts_used,
     last_attempt |-> FormatRFC3339(now)]

(* Grading that adds the attempt to the counts stored by earlier ones. *)
GradeAttemptCumulative(progress, answers, testID, now) ==
    [user_id |-> progress.user_id,
     test_id |-> progress.test_id,
     questions_answered |-> progress.questions_answered + Len(answers),
     correct_answers |->
         progress.correct_answers + CorrectAnswers(answers, testID),
     score |-> FloatPercent(progress.correct_answers
                               + CorrectAnswers(answers, testID),
                            NumQuestions(testID)),
     attempts_used |-> progress.attempts_used + 1,
     last_attempt |-> FormatRFC3339(now)]

(* The assignments to progress after the quota check. *)
GradeAttempt(progress, answers, testID, now) ==
    [user_id |-> progress.user_id,
     test_id |-> progress.test_id,
     questions_answered |-> Len(answers),
     correct_answers |-> CorrectAnswers(answers, testID),
     score |-> FloatPercent(CorrectAnswers(answers, testID),
                            NumQuestions(testID)),
     attempts_used |-> progress.attempts_used + 1,
     last_attempt |-> FormatRFC3339(now)]

(* A rejection that is written down as an attempt. *)
NoAttemptsLeftCounted(pid, progress) ==
    /\ testProgress' = Save(testProgress, pid,
           [progress EXCEPT !.attempts_used = @ + 1])
    /\ UNCHANGED clock

(* "No attempts left": the handler returns before it writes anything. *)
NoAttemptsLeft(pid, progress) ==
    UNCHANGED <<testProgress, clock>>

UpdateTestProgress(userID, testID, answers, now) ==
    /\ userID \in TokenHolders
    /\ IF ~TestExists(testID)
       THEN /\ resp' = Exchange("UpdateTestProgress", 404, userID, testID, answers)
            /\ UNCHANGED <<testProgress, clock>>
       ELSE LET pid == FindTestProgress(userID, testID)
                progress == IF pid = 0 THEN NewTestProgress(userID, testID)
                            ELSE testProgress[pid]
            IN
            IF QuotaExhausted(progress.attempts_used, AttemptsAllowed(testID))
            THEN /\ resp' = Exchange("UpdateTestProgress", 403, userID, testID, answers)
                 /\ NoAttemptsLeft(pid, progress)
            ELSE /\ AttemptsGraded < MaxAttempts
                 /\ now \in clock..(clock + MaxJitter)
                 /\ clock' = now
                 /\ testProgress' = Save(testProgress, pid,
                        GradeAttempt(progress, answers, testID, now))
                 /\ resp' = Exchange("UpdateTestProgress",
                        JSON(GradeAttempt(progress, answers, testID, now).score),
                        userID, testID, answers)
    /\ UNCHANGED <<courseVars, inflight, users, tests, questions,
                   accessSettings, authVars>>

-----------------------------------------------------------------------------
(* Course Progress Tracker *)

CourseIds == 1..MaxCourses
LessonIds == 1..MaxLessons

(* hours_spent is counted in half hours, which float64 adds without *)
(* rounding: 5 is the 2.5 of the handler's test, -2 is -1.0.        *)
HoursInputs == {-2, 5}

(* DB.Preload("Lessons").First(&course, courseID) *)
CourseExists(courseID) == courseID \in 1..Len(courses)

(* len(course.Lessons) after Preload("Lessons") *)
NumLessons(courseID) ==
    Cardinality({i \in 1..Len(lessons) : lessons[i].course_id = courseID})

(* The access settings row the handler creates is read by no handler of *)
(* the model and is left out.                                           *)
CreateCourse(userID) ==
    /\ userID \in TokenHolders
    /\ Len(courses) < MaxCourses
    /\ IF ~AdminMiddleware(userID)
       THEN /\ resp' = Response("CreateCourse", 403, userID, 0)
            /\ UNCHANGED courses
       ELSE /\ courses' = Append(courses, [author_id |-> userID])
            /\ resp' = Response("CreateCourse", 200, userID, Len(courses) + 1)
    /\ UNCHANGED <<lessons, courseProgress, courseEvents, inflight, users,
                   testVars, authVars, clock>>

(* course.AccessSettings is not preloaded: its Admins is the empty string. *)
AddLesson(userID, courseID) ==
    /\ userID \in TokenHolders
    /\ Len(lessons) < MaxLessons
    /\ IF ~AdminMiddleware(userID)
       THEN /\ resp' = Response("AddLesson", 403, userID, courseID)
            /\ UNCHANGED lessons
       ELSE IF ~CourseExists(courseID)
       THEN /\ resp' = Response("AddLesson", 404, userID, courseID)
            /\ UNCHANGED lessons
       ELSE IF courses[courseID].author_id # userID /\ ~ContainsAdmin({}, userID)
       THEN /\ resp' = Response("AddLesson", 403, userID, courseID)
            /\ UNCHANGED lessons
       ELSE /\ lessons' = Append(lessons, [course_id |-> courseID])
            /\ resp' = Response("AddLesson", 200, userID, courseID)
    /\ UNCHANGED <<courses, courseProgress, courseEvents, inflight, users,
                   testVars, authVars, clock>>

(* DB.Where("user_id = ? AND course_id = ?", userID, courseID).First(&progress) *)
FindCourseProgress(userID, courseID) ==
    FirstOf({i \in 1..Len(courseProgress) :
                /\ courseProgress[i].user_id = userID
                /\ courseProgress[i].course_id = courseID})

(* A record that starts with the lesson of the first event counted. *)
NewCourseProgressStarted(userID, courseID) ==
    [user_id |-> userID,
     course_id |-> courseID,
     lessons_completed |-> 1,
     hours_spent |-> 0,
     completion_rate |-> Ratio(0, 1),
     last_accessed |-> ""]

(* The record the handler starts from when none is stored. *)
NewCourseProgress(userID, courseID) ==
    [user_id |-> userID,
     course_id |-> courseID,
     lessons_completed |-> 0,
     hours_spent |-> 0,
     completion_rate |-> Ratio(0, 1),
     last_accessed |-> ""]

(* An event that counts a lesson whether or not it is marked completed. *)
ApplyLessonEventAlways(progress, totalLessons, hoursSpent, markCompleted, now) ==
    [user_id |-> progress.user_id,
     course_id |-> progress.course_id,
     lessons_completed |-> progress.lessons_completed + 1,
     hours_spent |-> progress.hours_spent + hoursSpent,
     completion_rate |->
         FloatPercent(progress.lessons_completed + 1, totalLessons),
     last_accessed |-> FormatRFC3339(now)]

(* An event whose rate is capped at 100. *)
ApplyLessonEventClamped(progress, totalLessons, hoursSpent, markCompleted, now) ==
    LET completed == progress.lessons_completed
                        + (IF markCompleted THEN 1 ELSE 0) IN
    [user_id |-> progress.user_id,
     course_id |-> progress.course_id,
     lessons_completed |-> completed,
     hours_spent |-> progress.hours_spent + hoursSpent,
     completion_rate |->
         IF totalLessons > 0 /\ completed > totalLessons
         THEN Ratio(100, 1)
         ELSE FloatPercent(completed, totalLessons),
     last_accessed |-> FormatRFC3339(now)]

(* The assignments to progress: the lesson counted if marked completed, *)
(* the hours added, the rate recomputed over the lessons loaded with    *)
(* the course.                                                          *)
ApplyLessonEvent(progress, totalLessons, hoursSpent, markCompleted, now) ==
    LET completed == progress.lessons_completed
                        + (IF markCompleted THEN 1 ELSE 0) IN
    [user_id |-> progress.user_id,
     course_id |-> progress.course_id,
     lessons_completed |-> completed,
     hours_spent |-> progress.hours_spent + hoursSpent,
     completion_rate |-> FloatPercent(completed, totalLessons),
     last_accessed |-> FormatRFC3339(now)]

(* The event as the request states it. *)
LessonEvent(userID, courseID, lessonID, hoursSpent, markCompleted) ==
    [user_id |-> userID, course_id |-> courseID, lesson_id |-> lessonID,
     hours_spent |-> hoursSpent, mark_completed |-> markCompleted]

UpdateCourseProgress(userID, courseID, lessonID, hoursSpent, markCompleted, now) ==
    /\ userID \in TokenHolders
    /\ IF ~CourseExists(courseID)
       THEN /\ resp' = Response("UpdateCourseProgress", 404, userID, courseID)
            /\ UNCHANGED <<courseProgress, courseEvents, clock>>
       ELSE LET pid == FindCourseProgress(userID, courseID)
                progress == IF pid = 0 THEN NewCourseProgress(userID, courseID)
                            ELSE courseProgress[pid]
                stored == ApplyLessonEvent(progress, NumLessons(courseID),
                                           hoursSpent, markCompleted, now)
            IN
            /\ Len(courseEvents) < MaxEvents
            /\ now \in clock..(clock + MaxJitter)
            /\ clock' = now
            /\ courseProgress' = Save(courseProgress, pid, stored)
            /\ courseEvents' = Append(courseEvents,
                   LessonEvent(userID, courseID, lessonID, hoursSpent,
                               markCompleted))
            /\ resp' = Response("UpdateCourseProgress",
                                JSON(stored.completion_rate), userID, courseID)
    /\ UNCHANGED <<courses, lessons, inflight, users, testVars, authVars>>

-----------------------------------------------------------------------------
(* Progress reports *)

(* The calendar, in UTC, which is taken to be the server's time zone. The *)
(* instants of the model are seconds since the run started, at RunStart   *)
(* seconds after the first instant of EpochYear.                          *)
EpochYear == 2023
SecondsPerDay == 86400

IsLeap(year) ==
    (year % 4 = 0 /\ year % 100 # 0) \/ year % 400 = 0

DaysIn(year, month) ==
    IF month = 2 THEN (IF IsLeap(year) THEN 29 ELSE 28)
    ELSE IF month \in {4, 6, 9, 11} THEN 30 ELSE 31

(* The months of the calendar are numbered from 0, January of EpochYear. *)
MonthIndex(year, month) == (year - EpochYear) * 12 + (month - 1)
YearOfIndex(k) == EpochYear + (k \div 12)
MonthOfIndex(k) == (k % 12) + 1

(* The days from the first day of EpochYear to the first day of month k. *)
RECURSIVE DaysToMonth(_)
DaysToMonth(k) ==
    IF k = 0 THEN 0
    ELSE DaysToMonth(k - 1) + DaysIn(YearOfIndex(k - 1), MonthOfIndex(k - 1))

(* The same days, for the months of the model, as a table. *)
MonthStarts == [k \in 0..(CalendarMonths + 1) |-> DaysToMonth(k)]

(* time.Date(year, month, day, 0, 0, sec, 0, time.UTC): a month outside  *)
(* 1..12 and a day outside the month are normalised, the month first and *)
(* the day by counting days from the first of the month.                 *)
Date(year, month, day, sec) ==
    (MonthStarts[MonthIndex(year, month)] + day - 1) * SecondsPerDay + sec

(* t.Year(), t.Month(), t.Day() and the second of the day of instant t. *)
Civil(t) ==
    LET days == t \div SecondsPerDay
        k == CHOOSE i \in 0..CalendarMonths :
                 MonthStarts[i] <= days /\ days < MonthStarts[i + 1]
    IN [year |-> YearOfIndex(k),
        month |-> MonthOfIndex(k),
        day |-> days - MonthStarts[k] + 1,
        sec |-> t % SecondsPerDay]

(* t.AddDate(years, months, days) *)
AddDate(t, years, months, days) ==
    LET c == Civil(t) IN
    Date(c.year + years, c.month + months, c.day + days, c.sec)

(* The run starts as 30 January 2024 begins: its instants are in the last *)
(* days of a month of 31 days and the first days of the month after it.   *)
RunStart == Date(2024, 1, 30, 0)

(* The time.Time of the clock reading t. *)
Instant(t) == RunStart + t

(* t.Format("2006-01-02"): the year, the month and the day of t. *)
FormatDate(t) == LET c == Civil(t) IN <<c.year, c.month, c.day>>

(* time.Parse(time.RFC3339, text) *)
ParseRFC3339(text) == text[2]

(* SQL: x BETWEEN low AND high, both bounds included. *)
Between(x, low, high) == low <= x /\ x <= high

(* startOfMonth.AddDate(0, 1, -1): the first instant of the last day. *)
EndOfMonth(startOfMonth) == AddDate(startOfMonth, 0, 1, -1)

(* SELECT MAX(x): the zero value is kept when no row is selected. *)
MaxOf(values) ==
    IF values = {} THEN 0 ELSE CHOOSE v \in values : \A w \in values : w <= v

(* One entry of the report: the month i months before the instant now. *)
MonthlyProgress(userID, now, i) ==
    LET month == Civil(AddDate(now, 0, -i, 0))
        startOfMonth == Date(month.year, month.month, 1, 0)
        endOfMonth == EndOfMonth(startOfMonth)
        logins == {j \in 1..Len(loginHistory) :
                      /\ loginHistory[j].user_id = userID
                      /\ Between(Instant(loginHistory[j].login_time),
                                 startOfMonth, endOfMonth)}
        days == {FormatDate(Instant(loginHistory[j].login_time)) :
                     j \in logins}
    IN [month |-> month.month,
        year |-> month.year,
        streak_days |->
            MaxOf({userProgress[j].streak_days :
                      j \in {n \in 1..Len(userProgress) :
                                /\ userProgress[n].user_id = userID
                                /\ Between(Instant(userProgress[n].last_active),
                                           startOfMonth, endOfMonth)}}),
        courses_completed |->
            Cardinality({j \in 1..Len(courseProgress) :
                /\ courseProgress[j].user_id = userID
                /\ Between(Instant(ParseRFC3339(courseProgress[j].last_accessed)),
                           startOfMonth, endOfMonth)
                /\ courseProgress[j].completion_rate = Ratio(100, 1)}),
        login_frequency |->
            [day \in days |->
                Cardinality({j \in logins :
                    FormatDate(Instant(loginHistory[j].login_time)) = day})]]

(* GET /progress. updated_at of a course record is the instant of its    *)
(* last Save, which is the instant last_accessed was formatted at, to    *)
(* the second.                                                           *)
GetProgress(userID, now) ==
    /\ userID \in TokenHolders
    /\ now \in clock..(clock + MaxJitter)
    /\ clock' = now
    /\ resp' = Reply("GetProgress", 200, userID,
                     [i \in 1..4 |->
                         MonthlyProgress(userID, Instant(now), i - 1)])
    /\ UNCHANGED <<courseVars, inflight, users, testVars, authVars>>

(* SQL comparisons of a FLOAT column with 100: NaN and Infinity are stored *)
(* as such, Infinity is above every number and NaN is above Infinity.      *)
SqlEq100(x) == IsNumber(x) /\ x.n = 100 * x.d
SqlGeq100(x) == ~IsNumber(x) \/ x.n >= 100 * x.d
SqlLt100(x) == IsNumber(x) /\ x.n < 100 * x.d

(* Where("user_id = ? AND completion_rate = 100", userID) *)
CoursesCompleted(userID) ==
    {j \in 1..Len(courseProgress) :
        /\ courseProgress[j].user_id = userID
        /\ SqlEq100(courseProgress[j].completion_rate)}

(* GET /progress/overview *)
GetProgressOverview(userID) ==
    /\ userID \in TokenHolders
    /\ LET pid == FindUserProgress(userID) IN
       resp' = Reply("GetProgressOverview", 200, userID,
           [total_streak_days |->
                IF pid = 0 THEN 0 ELSE userProgress[pid].streak_days,
            total_courses_completed |-> Cardinality(CoursesCompleted(userID)),
            total_tests_completed |->
                Cardinality({j \in 1..Len(testProgress) :
                    /\ testProgress[j].user_id = userID
                    /\ testProgress[j].attempts_used > 0})])
    /\ UNCHANGED <<courseVars, inflight, users, testVars, authVars, clock>>

StatusFilters == {"all", "in_progress", "completed"}

(* The records of the user that the status filter of the course list keeps. *)
CoursesWithStatus(userID, status) ==
    {j \in 1..Len(courseProgress) :
        /\ courseProgress[j].user_id = userID
        /\ status = "in_progress"
              => SqlLt100(courseProgress[j].completion_rate)
        /\ status = "completed"
              => SqlGeq100(courseProgress[j].completion_rate)}

(* GET /user/courses?status=..., without a search text and on the first  *)
(* page, which holds every record of the model. The body lists the       *)
(* records found whose course exists; their rates are part of it.        *)
GetUserCourses(userID, status) ==
    /\ userID \in TokenHolders
    /\ LET found == CoursesWithStatus(userID, status)
           listed == {j \in found : CourseExists(courseProgress[j].course_id)}
       IN
       resp' = Reply("GetUserCourses",
                     IF \A j \in listed :
                           IsNumber(courseProgress[j].completion_rate)
                     THEN 200 ELSE 500,
                     userID,
                     [status |-> status, data |-> listed,
                      total |-> Cardinality(found)])
    /\ UNCHANGED <<courseVars, inflight, users, testVars, authVars, clock>>

(* The quota does not depend on which questions are answered: the lists *)
(* submitted here answer the first question only.                        *)
QuotaAnswers ==
    {answers \in AnswerLists :
        \A i \in 1..Len(answers) : answers[i].question_id = 1}

-----------------------------------------------------------------------------
(* Requests handled concurrently.  A handler runs its queries, then its  *)
(* assignments and its Save, outside any transaction: between the two    *)
(* the other connections' handlers may run.                              *)

Requests == 1..MaxRequests

InFlight(op) ==
    {r \in Requests : inflight[r].phase = "read" /\ inflight[r].op = op}

(* The queries of UpdateCourseProgress: the course with its lessons and *)
(* the user's record, or the zero record when there is none.            *)
BeginUpdateCourseProgress(r, userID, courseID, lessonID, hoursSpent, markCompleted) ==
    /\ userID \in TokenHolders
    /\ inflight[r] = Idle
    /\ CourseExists(courseID)
    /\ Len(courseEvents) + Cardinality(InFlight("UpdateCourseProgress"))
          < MaxEvents
    /\ LET pid == FindCourseProgress(userID, courseID) IN
       inflight' = [inflight EXCEPT ![r] =
           [phase |-> "read",
            op |-> "UpdateCourseProgress",
            body |-> LessonEvent(userID, courseID, lessonID, hoursSpent,
                                 markCompleted),
            pid |-> pid,
            progress |-> IF pid = 0 THEN NewCourseProgress(userID, courseID)
                         ELSE courseProgress[pid],
            total |-> NumLessons(courseID)]]
    /\ UNCHANGED <<courseVars, users, testVars, authVars, clock, resp>>

(* Assignments and Save under a lock on the row: the row is read again. *)
FinishUpdateCourseProgressLocked(r) ==
    /\ inflight[r].phase = "read"
    /\ inflight[r].op = "UpdateCourseProgress"
    /\ LET request == inflight[r]
           pid == request.pid
           stored == ApplyLessonEvent(
                        IF pid = 0 THEN request.progress
                        ELSE courseProgress[pid],
                        request.total, request.body.hours_spent,
                        request.body.mark_completed, clock)
       IN  /\ courseProgress' = Save(courseProgress, pid, stored)
           /\ courseEvents' = Append(courseEvents, request.body)
           /\ resp' = Response("UpdateCourseProgress",
                               JSON(stored.completion_rate),
                               request.body.user_id, request.body.course_id)
    /\ inflight' = [inflight EXCEPT ![r] = Idle]
    /\ UNCHANGED <<courses, lessons, users, testVars, authVars, clock>>

(* The assignments to the record the queries returned, and its Save. *)
FinishUpdateCourseProgress(r) ==
    /\ inflight[r].phase = "read"
    /\ inflight[r].op = "UpdateCourseProgress"
    /\ LET request == inflight[r]
           stored == ApplyLessonEvent(request.progress, request.total,
                                      request.body.hours_spent,
                                      request.body.mark_completed, clock)
       IN  /\ courseProgress' = Save(courseProgress, request.pid, stored)
           /\ courseEvents' = Append(courseEvents, request.body)
           /\ resp' = Response("UpdateCourseProgress",
                               JSON(stored.completion_rate),
                               request.body.user_id, request.body.course_id)
    /\ inflight' = [inflight EXCEPT ![r] = Idle]
    /\ UNCHANGED <<courses, lessons, users, testVars, authVars, clock>>

(* The queries of UpdateTestProgress and its check of the attempts. *)
BeginUpdateTestProgress(r, userID, testID, answers) ==
    /\ userID \in TokenHolders
    /\ inflight[r] = Idle
    /\ TestExists(testID)
    /\ LET pid == FindTestProgress(userID, testID)
           progress == IF pid = 0 THEN NewTestProgress(userID, testID)
                       ELSE testProgress[pid]
       IN
       IF QuotaExhausted(progress.attempts_used, AttemptsAllowed(testID))
       THEN /\ resp' = Exchange("UpdateTestProgress", 403, userID, testID,
                                answers)
            /\ UNCHANGED inflight
       ELSE /\ AttemptsGraded + Cardinality(InFlight("UpdateTestProgress"))
                  < MaxAttempts
            /\ inflight' = [inflight EXCEPT ![r] =
                   [phase |-> "read",
                    op |-> "UpdateTestProgress",
                    body |-> answers,
                    pid |-> pid,
                    progress |-> progress,
                    total |-> NumQuestions(testID)]]
            /\ UNCHANGED resp
    /\ UNCHANGED <<courseVars, users, testVars, authVars, clock>>

(* The grading of the answers into the record the queries returned, and *)
(* its Save.                                                            *)
FinishUpdateTestProgress(r) ==
    /\ inflight[r].phase = "read"
    /\ inflight[r].op = "UpdateTestProgress"
    /\ LET request == inflight[r]
           stored == GradeAttempt(request.progress, request.body,
                                  request.progress.test_id, clock)
       IN  /\ testProgress' = Save(testProgress, request.pid, stored)
           /\ resp' = Exchange("UpdateTestProgress", JSON(stored.score),
                               request.progress.user_id,
                               request.progress.test_id, request.body)
    /\ inflight' = [inflight EXCEPT ![r] = Idle]
    /\ UNCHANGED <<courseVars, users, tests, questions, accessSettings,
                   authVars, clock>>

-----------------------------------------------------------------------------
(* Specifications *)

(* Registration and logins from the empty database. *)
NextAuth ==
    \/ \E username \in Usernames, password \in Passwords :
          Register(username, password)
    \/ \E username \in Usernames, password \in Passwords,
          now1, now2, now3 \in clock..(clock + MaxJitter) :
          Login(username, password, now1, now2, now3)
    \/ \E d \in TimeSteps : TimePasses(d)

SpecAuth == Init /\ [][NextAuth]_vars

(* The catalogue from the empty database. *)
NextCatalogue ==
    \/ \E username \in Usernames : Register(username, "secret")
    \/ \E userID \in 1..MaxUsers, settingsCreated \in BOOLEAN :
          CreateTest(userID, settingsCreated)
    \/ \E userID \in 1..MaxUsers, testID \in TestIds,
          correctAnswer \in -1..MaxOptions :
          AddQuestion(userID, testID, MaxOptions, correctAnswer)
    \/ \E userID \in 1..MaxUsers, testID \in TestIds, questionID \in QuestionIds,
          options \in {-1, 1},
          correctAnswer \in IntFields({-1, MaxOptions}) :
          UpdateQuestion(userID, testID, questionID, options, correctAnswer)
    \/ \E userID \in 1..MaxUsers, testID \in TestIds,
          attemptsAllowed \in IntFields({-1, MaxAllowed}) :
          UpdateTestSettings(userID, testID, {}, attemptsAllowed)

SpecCatalogue == Init /\ [][NextCatalogue]_vars

(* States of the catalogue that Register, CreateTest, AddQuestion and *)
(* UpdateTestSettings lead to, from which attempts are submitted.     *)
RegisteredUsers(n) ==
    [i \in 1..n |-> [username |-> UsernamePool[i],
                     password_hash |-> Hash("secret")]]

CreatedTests(n) == [i \in 1..n |-> [author_id |-> 1]]

SettingsOf(n, attemptsAllowed) ==
    [i \in 1..n |-> [test_id |-> i, admins |-> {1},
                     attempts_allowed |-> attemptsAllowed]]

QuestionBanks ==
    UNION {[1..n -> [test_id : TestIds,
                     options : {MaxOptions},
                     correct_answer : 0..(MaxOptions - 1)]] : n \in 0..MaxQuestions}

(* The bank {Q1 -> 0, Q2 -> 1} of one test. *)
ExampleBank ==
    <<[test_id |-> 1, options |-> MaxOptions, correct_answer |-> 0],
      [test_id |-> 1, options |-> MaxOptions, correct_answer |-> 1]>>

(* Quota: every user submits to one test whose settings its author edits. *)
InitQuota ==
    /\ users = RegisteredUsers(MaxUsers)
    /\ tests = CreatedTests(1)
    /\ questions = ExampleBank
    /\ accessSettings = SettingsOf(1, 1)
    /\ testProgress = <<>>
    /\ userProgress = <<>>
    /\ loginHistory = <<>>
    /\ clock = 0
    /\ resp = Response("none", 0, 0, 0)
    /\ NoCourses
    /\ inflight = NoRequests

SubmitAttempt ==
    \E userID \in 1..MaxUsers, testID \in TestIds, answers \in QuotaAnswers,
       now \in clock..(clock + MaxJitter) :
       UpdateTestProgress(userID, testID, answers, now)

NextQuota ==
    \/ \E userID \in 1..MaxUsers, testID \in TestIds,
          attemptsAllowed \in -1..MaxAllowed :
          UpdateTestSettings(userID, testID, {}, {attemptsAllowed})
    \/ SubmitAttempt

SpecQuota == InitQuota /\ [][NextQuota]_vars

(* Courses: one user creates courses, adds lessons and reports progress. *)
InitCourse ==
    /\ users = RegisteredUsers(1)
    /\ tests = <<>>
    /\ questions = <<>>
    /\ accessSettings = <<>>
    /\ testProgress = <<>>
    /\ userProgress = <<>>
    /\ loginHistory = <<>>
    /\ clock = 0
    /\ resp = Response("none", 0, 0, 0)
    /\ NoCourses
    /\ inflight = NoRequests

NextCourse ==
    \/ \E userID \in 1..MaxUsers : CreateCourse(userID)
    \/ \E userID \in 1..MaxUsers, courseID \in CourseIds :
          AddLesson(userID, courseID)
    \/ \E userID \in 1..MaxUsers, courseID \in CourseIds,
          lessonID \in LessonIds, hoursSpent \in HoursInputs,
          markCompleted \in BOOLEAN :
          UpdateCourseProgress(userID, courseID, lessonID, hoursSpent,
                               markCompleted, clock + MaxJitter)

SpecCourse == InitCourse /\ [][NextCourse]_vars

(* Empty catalogues: a course without lessons and a test without *)
(* questions, as CreateCourse and CreateTest leave them.          *)
InitEmpty ==
    /\ users = RegisteredUsers(1)
    /\ tests = CreatedTests(1)
    /\ questions = <<>>
    /\ accessSettings = SettingsOf(1, 0)
    /\ testProgress = <<>>
    /\ userProgress = <<>>
    /\ loginHistory = <<>>
    /\ clock = 0
    /\ resp = Response("none", 0, 0, 0)
    /\ courses = <<[author_id |-> 1]>>
    /\ lessons = <<>>
    /\ courseProgress = <<>>
    /\ courseEvents = <<>>
    /\ inflight = NoRequests

NextEmpty ==
    \/ \E userID \in 1..MaxUsers, courseID \in CourseIds,
          hoursSpent \in HoursInputs, markCompleted \in BOOLEAN :
          UpdateCourseProgress(userID, courseID, 1, hoursSpent,
                               markCompleted, clock)
    \/ \E userID \in 1..MaxUsers, testID \in TestIds, answers \in QuotaAnswers :
          UpdateTestProgress(userID, testID, answers, clock)

SpecEmpty == InitEmpty /\ [][NextEmpty]_vars

(* Concurrency: one user's requests for a course of one lesson and a test *)
(* of the example bank, handled on MaxRequests connections at once.       *)
InitRace ==
    /\ users = RegisteredUsers(1)
    /\ tests = CreatedTests(1)
    /\ questions = ExampleBank
    /\ accessSettings = SettingsOf(1, 0)
    /\ testProgress = <<>>
    /\ userProgress = <<>>
    /\ loginHistory = <<>>
    /\ clock = 0
    /\ resp = Response("none", 0, 0, 0)
    /\ courses = <<[author_id |-> 1]>>
    /\ lessons = <<[course_id |-> 1]>>
    /\ courseProgress = <<>>
    /\ courseEvents = <<>>
    /\ inflight = NoRequests

RaceAnswers == {<<[question_id |-> 1, answer |-> 0]>>}

NextRace ==
    \/ \E r \in Requests, userID \in 1..MaxUsers, courseID \in CourseIds,
          markCompleted \in BOOLEAN :
          BeginUpdateCourseProgress(r, userID, courseID, 1, 5, markCompleted)
    \/ \E r \in Requests : FinishUpdateCourseProgress(r)
    \/ \E r \in Requests, userID \in 1..MaxUsers, testID \in TestIds,
          answers \in RaceAnswers :
          BeginUpdateTestProgress(r, userID, testID, answers)
    \/ \E r \in Requests : FinishUpdateTestProgress(r)

SpecRace == InitRace /\ [][NextRace]_vars

(* Concurrent submissions to a test with a quota: the test has the example *)
(* bank and a positive attempts_allowed, 1 as CreateTest leaves it or more, *)
(* and nothing changes its settings.                                        *)
InitRaceQuota ==
    /\ users = RegisteredUsers(1)
    /\ tests = CreatedTests(1)
    /\ questions = ExampleBank
    /\ \E attemptsAllowed \in 1..MaxAllowed :
          accessSettings = SettingsOf(1, attemptsAllowed)
    /\ testProgress = <<>>
    /\ userProgress = <<>>
    /\ loginHistory = <<>>
    /\ clock = 0
    /\ resp = Response("none", 0, 0, 0)
    /\ NoCourses
    /\ inflight = NoRequests

NextRaceQuota ==
    \/ \E r \in Requests, userID \in 1..MaxUsers, testID \in TestIds,
          answers \in QuotaAnswers :
          BeginUpdateTestProgress(r, userID, testID, answers)
    \/ \E r \in Requests : FinishUpdateTestProgress(r)

SpecRaceQuota == InitRaceQuota /\ [][NextRaceQuota]_vars

(* Settings: the administrator creates tests, with or without their     *)
(* settings row, gives them a question, edits their settings and        *)
(* submits attempts.                                                    *)
NextSettings ==
    \/ \E settingsCreated \in BOOLEAN : CreateTest(1, settingsCreated)
    \/ \E testID \in TestIds : AddQuestion(1, testID, MaxOptions, 0)
    \/ \E testID \in TestIds, attemptsAllowed \in IntFields(-1..MaxAllowed) :
          UpdateTestSettings(1, testID, {}, attemptsAllowed)
    \/ \E testID \in TestIds, answers \in RaceAnswers :
          UpdateTestProgress(1, testID, answers, clock)

SpecSettings == InitCourse /\ [][NextSettings]_vars

(* Questions: the author of a test adds questions to it and edits them. *)
InitQuestions ==
    /\ users = RegisteredUsers(1)
    /\ tests = CreatedTests(1)
    /\ questions = <<>>
    /\ accessSettings = SettingsOf(1, DefaultAttemptsAllowed)
    /\ testProgress = <<>>
    /\ userProgress = <<>>
    /\ loginHistory = <<>>
    /\ clock = 0
    /\ resp = Response("none", 0, 0, 0)
    /\ NoCourses
    /\ inflight = NoRequests

NextQuestions ==
    \/ \E testID \in TestIds, correctAnswer \in -1..MaxOptions :
          AddQuestion(1, testID, MaxOptions, correctAnswer)
    \/ \E testID \in TestIds, questionID \in QuestionIds,
          options \in {-1, 1, MaxOptions},
          correctAnswer \in IntFields(-1..MaxOptions) :
          UpdateQuestion(1, testID, questionID, options, correctAnswer)

SpecQuestions == InitQuestions /\ [][NextQuestions]_vars

(* Grading: one user submits to the tests of any question bank, without *)
(* a limit of attempts.                                                 *)
InitGrade ==
    /\ users = RegisteredUsers(1)
    /\ tests = CreatedTests(MaxTests)
    /\ questions \in QuestionBanks
    /\ accessSettings = SettingsOf(MaxTests, 0)
    /\ testProgress = <<>>
    /\ userProgress = <<>>
    /\ loginHistory = <<>>
    /\ clock = 0
    /\ resp = Response("none", 0, 0, 0)
    /\ NoCourses
    /\ inflight = NoRequests

NextGrade ==
    \E userID \in 1..MaxUsers, testID \in TestIds, answers \in AnswerLists :
       UpdateTestProgress(userID, testID, answers, clock + MaxJitter)

SpecGrade == InitGrade /\ [][NextGrade]_vars

-----------------------------------------------------------------------------
(* Properties of the Test Attempt Grader *)

(* What is stored for a user and a test, read off the table. *)
ProgressRows(table, userID, testID) ==
    {i \in 1..Len(table) :
        table[i].user_id = userID /\ table[i].test_id = testID}

StoredUsed(table, userID, testID) ==
    IF ProgressRows(table, userID, testID) = {} THEN 0
    ELSE table[FirstOf(ProgressRows(table, userID, testID))].attempts_used

(* attempts_allowed of the test's settings row in a settings table. *)
StoredAllowed(table, testID) ==
    LET rows == {i \in 1..Len(table) : table[i].test_id = testID} IN
    IF rows = {} THEN 0 ELSE table[FirstOf(rows)].attempts_allowed

Rejected == resp.op = "UpdateTestProgress" /\ resp.status = 403
Graded == resp.op = "UpdateTestProgress" /\ resp.status = 200

(* The record of the user and test of the latest exchange. *)
GradedRow ==
    testProgress[FirstOf(ProgressRows(testProgress, resp.user, resp.target))]

(* C1: a submission to an existing test is answered "No attempts left"     *)
(* exactly when attempts_allowed > 0 and the stored attempts_used is at    *)
(* least attempts_allowed; every other submission is let through (graded). *)
C1_RejectedExactlyWhenExhausted ==
    [][(resp'.op = "UpdateTestProgress" /\ TestExists(resp'.target))
       => LET allowed == StoredAllowed(accessSettings, resp'.target)
              used == StoredUsed(testProgress, resp'.user, resp'.target)
          IN  /\ resp'.status \in {200, 403}
              /\ resp'.status = 403 <=> (allowed > 0 /\ used >= allowed)
      ]_vars

(* A submission was rejected on a quota the stored count exceeds (the quota *)
(* was lowered after the attempts were made).                               *)
C1_Witness ==
    /\ Rejected
    /\ StoredAllowed(accessSettings, resp.target) > 0
    /\ StoredUsed(testProgress, resp.user, resp.target)
          > StoredAllowed(accessSettings, resp.target)

(* C2: a submission rejected for exhausted attempts changes no table: the *)
(* user's record is as before and no record is created.                  *)
C2_RejectionChangesNothing ==
    [][(resp'.op = "UpdateTestProgress" /\ resp'.status = 403)
       => /\ testProgress' = testProgress
          /\ UNCHANGED <<users, tests, questions, accessSettings,
                         userProgress, loginHistory>>
      ]_vars

(* A submission was rejected at a later instant than the graded attempt *)
(* whose answers, score and time its record holds.                      *)
C2_Witness ==
    /\ Rejected
    /\ ProgressRows(testProgress, resp.user, resp.target) # {}
    /\ GradedRow.questions_answered = MaxAnswers
    /\ GradedRow.correct_answers > 0
    /\ GradedRow.last_attempt # FormatRFC3339(clock)

(* C3: with attempts_allowed = 0 a submission to the test is never rejected: *)
(* it is graded and attempts_used grows by one, whatever its value.          *)
C3_ZeroMeansUnlimited ==
    [][(/\ resp'.op = "UpdateTestProgress"
        /\ TestExists(resp'.target)
        /\ StoredAllowed(accessSettings, resp'.target) = 0)
       => /\ resp'.status = 200
          /\ StoredUsed(testProgress', resp'.user, resp'.target)
                = StoredUsed(testProgress, resp'.user, resp'.target) + 1
      ]_vars

(* An attempt beyond every quota the model sets was graded under quota 0. *)
C3_Witness ==
    /\ Graded
    /\ StoredAllowed(accessSettings, resp.target) = 0
    /\ StoredUsed(testProgress, resp.user, resp.target) > MaxAllowed

(* C4: while the quota N > 0 of a test is not changed, a user whose count is *)
(* within N (as it is with no record: 0) has each submission graded and      *)
(* counted, by exactly one, until the count is N; from then on every         *)
(* submission is rejected and the count stays N: it never exceeds N.         *)
C4_QuotaSequence ==
    [][\A userID \in 1..MaxUsers, testID \in TestIds :
          LET N == StoredAllowed(accessSettings, testID)
              used == StoredUsed(testProgress, userID, testID)
              usedAfter == StoredUsed(testProgress', userID, testID)
          IN  (/\ TestExists(testID)
               /\ N > 0
               /\ StoredAllowed(accessSettings', testID) = N
               /\ used <= N)
              => /\ usedAfter <= N
                 /\ (/\ resp'.op = "UpdateTestProgress"
                     /\ resp'.user = userID
                     /\ resp'.target = testID)
                    => IF used < N
                       THEN resp'.status = 200 /\ usedAfter = used + 1
                       ELSE resp'.status = 403 /\ usedAfter = used
      ]_vars

(* The submission after the N-th was rejected, for the largest quota N. *)
C4_Witness ==
    /\ Rejected
    /\ StoredAllowed(accessSettings, resp.target) = MaxAllowed
    /\ StoredUsed(testProgress, resp.user, resp.target) = MaxAllowed

(* The record stored by the step for the user and test of its exchange. *)
RowAfter ==
    testProgress'[FirstOf(ProgressRows(testProgress', resp'.user, resp'.target))]

(* The submitted answers that name a question of the test and pick the *)
(* question's correct answer.                                          *)
Matches(answers, testID) ==
    {i \in 1..Len(answers) :
        \E q \in 1..Len(questions) :
           /\ q = answers[i].question_id
           /\ questions[q].test_id = testID
           /\ questions[q].correct_answer = answers[i].answer}

(* C5: after a successful submission the stored score is correct_answers *)
(* over the number of questions of the test, times 100, however many     *)
(* answers were submitted (a submission to a test without questions is   *)
(* not answered 200).                                                    *)
C5_ScoreOverTestQuestions ==
    [][(resp'.op = "UpdateTestProgress" /\ resp'.status = 200)
       => LET total == NumQuestions(resp'.target) IN
          /\ total > 0
          /\ IsNumber(RowAfter.score)
          /\ RowAfter.score.n * total
                = RowAfter.correct_answers * 100 * RowAfter.score.d
      ]_vars

(* One correct answer was submitted to a test of MaxQuestions questions: *)
(* the score is 100 / MaxQuestions, not 100.                             *)
C5_Witness ==
    /\ Graded
    /\ NumQuestions(resp.target) = MaxQuestions
    /\ Len(resp.answers) = 1
    /\ GradedRow.correct_answers = 1
    /\ GradedRow.score = Ratio(100, MaxQuestions)

(* C6: after a graded submission correct_answers is the number of submitted *)
(* answers that name a question of this test and pick its correct answer;   *)
(* answers naming any other question add nothing.                           *)
C6_CorrectAnswersCounted ==
    [][(resp'.op = "UpdateTestProgress" /\ resp'.status = 200)
       => RowAfter.correct_answers
             = Cardinality(Matches(resp'.answers, resp'.target))
      ]_vars

(* Answers that pick the correct answer of another test's question were *)
(* graded: none counts.                                                 *)
C6_Witness ==
    /\ Graded
    /\ Len(resp.answers) = MaxAnswers
    /\ \A i \in 1..Len(resp.answers) :
          LET q == resp.answers[i].question_id IN
          /\ q <= Len(questions)
          /\ questions[q].test_id # resp.target
          /\ questions[q].correct_answer = resp.answers[i].answer
    /\ GradedRow.correct_answers = 0

(* C7: after a graded submission questions_answered is the number of answers *)
(* submitted, the skipped ones included.                                     *)
C7_QuestionsAnsweredCountsAll ==
    [][(resp'.op = "UpdateTestProgress" /\ resp'.status = 200)
       => RowAfter.questions_answered = Len(resp'.answers)
      ]_vars

(* MaxAnswers answers naming questions that do not exist were graded. *)
C7_Witness ==
    /\ Graded
    /\ Len(resp.answers) = MaxAnswers
    /\ \A i \in 1..Len(resp.answers) :
          resp.answers[i].question_id > Len(questions)
    /\ GradedRow.questions_answered = MaxAnswers
    /\ GradedRow.correct_answers = 0

(* C8: every stored score lies in [0, 100], whatever answer list was *)
(* submitted; stated of the scores that are numbers (a test without  *)
(* questions stores 0/0, which is no number at all).                 *)
C8_ScoreInRange ==
    \A i \in 1..Len(testProgress) :
       IsNumber(testProgress[i].score)
       => /\ testProgress[i].score.n >= 0
          /\ RatioLeq(testProgress[i].score, 100)

-----------------------------------------------------------------------------
(* Properties of the Login Streak Tracker *)

ActivityRows(table, userID) ==
    {i \in 1..Len(table) : table[i].user_id = userID}

(* A step that logs a user in: it appends to the login history. *)
LoggedIn == Len(loginHistory') = Len(loginHistory) + 1

(* The instant the login was logged at. *)
LoginTime == loginHistory'[Len(loginHistory')].login_time

(* The record of the user of the latest exchange, before and after a step. *)
ActivityBefore == userProgress[FirstOf(ActivityRows(userProgress, resp'.user))]
ActivityAfter == userProgress'[FirstOf(ActivityRows(userProgress', resp'.user))]

(* C9: the successful login of a user without a record creates the record, *)
(* the only one added, with streak_days = 1 and last_active the instant of *)
(* the login (the handler's reading of the clock, no earlier than the      *)
(* instant logged in the history and at most MaxJitter later).             *)
C9_FirstLoginStartsStreak ==
    [][(LoggedIn /\ ActivityRows(userProgress, resp'.user) = {})
       => /\ resp'.op = "Login" /\ resp'.status = 200
          /\ Len(userProgress') = Len(userProgress) + 1
          /\ SubSeq(userProgress', 1, Len(userProgress)) = userProgress
          /\ userProgress'[Len(userProgress')].user_id = resp'.user
          /\ userProgress'[Len(userProgress')].streak_days = 1
          /\ userProgress'[Len(userProgress')].last_active = clock'
          /\ LoginTime <= clock' /\ clock' <= LoginTime + MaxJitter
      ]_vars

(* A user logged in for the first time, later than the start of the run. *)
C9_Witness ==
    /\ resp.op = "Login" /\ resp.status = 200
    /\ clock >= FortyEightHours
    /\ Len(loginHistory) >= 1
    /\ Cardinality({i \in 1..Len(loginHistory) :
                       loginHistory[i].user_id = resp.user}) = 1
    /\ \E i \in ActivityRows(userProgress, resp.user) :
          /\ userProgress[i].streak_days = 1
          /\ userProgress[i].last_active = clock

(* C10: the successful login of a user with a record: when the login is less *)
(* than 48 hours after last_active the streak grows by exactly one; when it  *)
(* is 48 hours or more after it, exactly 48 hours included, the streak       *)
(* becomes 1; either way last_active becomes the instant of the login. (The  *)
(* handler reads the clock for the comparison between the reading it logs    *)
(* and the reading it stores; the two bracket the comparison.)               *)
C10_StreakGrowsOrResets ==
    [][(LoggedIn /\ ActivityRows(userProgress, resp'.user) # {})
       => /\ resp'.op = "Login" /\ resp'.status = 200
          /\ Len(userProgress') = Len(userProgress)
          /\ ActivityAfter.last_active = clock'
          /\ LoginTime <= clock' /\ clock' <= LoginTime + MaxJitter
          /\ (clock' - ActivityBefore.last_active < FortyEightHours)
                => ActivityAfter.streak_days = ActivityBefore.streak_days + 1
          /\ (LoginTime - ActivityBefore.last_active >= FortyEightHours)
                => ActivityAfter.streak_days = 1
          /\ ActivityAfter.streak_days
                \in {ActivityBefore.streak_days + 1, 1}
      ]_vars

(* A user logged in exactly 48 hours after the previous login, which is *)
(* when last_active was stored: the streak is 1.                        *)
C10_Witness ==
    /\ resp.op = "Login" /\ resp.status = 200
    /\ Len(loginHistory) = MaxLogins
    /\ \A i \in 1..Len(loginHistory) : loginHistory[i].user_id = resp.user
    /\ loginHistory[MaxLogins - 1].login_time + FortyEightHours = clock
    /\ loginHistory[MaxLogins].login_time = clock
    /\ \E i \in ActivityRows(userProgress, resp.user) :
          /\ userProgress[i].streak_days = 1
          /\ userProgress[i].last_active = clock

(* C11 as claimed: a login at most 48 hours after the user's previous one, *)
(* the bound included, never lowers streak_days.                           *)
C11_StreakKeptWithin48Hours ==
    [][(/\ LoggedIn
        /\ ActivityRows(userProgress, resp'.user) # {}
        /\ clock' - ActivityBefore.last_active <= FortyEightHours)
       => ActivityAfter.streak_days >= ActivityBefore.streak_days
      ]_vars

(* C11: a login less than 48 hours after the user's previous one never *)
(* lowers streak_days.                                                 *)
C11_StreakKeptBelow48Hours ==
    [][(/\ LoggedIn
        /\ ActivityRows(userProgress, resp'.user) # {}
        /\ clock' - ActivityBefore.last_active < FortyEightHours)
       => ActivityAfter.streak_days >= ActivityBefore.streak_days
      ]_vars

(* A user has logged in MaxLogins times, the last time one second short of *)
(* 48 hours after the time before: the streak is MaxLogins days.           *)
C11_Witness ==
    /\ resp.op = "Login" /\ resp.status = 200
    /\ Len(loginHistory) = MaxLogins
    /\ \A i \in 1..Len(loginHistory) : loginHistory[i].user_id = resp.user
    /\ loginHistory[MaxLogins - 1].login_time + FortyEightHours - 1
          = loginHistory[MaxLogins].login_time
    /\ \E i \in ActivityRows(userProgress, resp.user) :
          userProgress[i].streak_days = MaxLogins

(* C12: every stored user_progress row has streak_days >= 1. *)
C12_StreakAtLeastOne ==
    \A i \in 1..Len(userProgress) : userProgress[i].streak_days >= 1

(* A streak of more than one day has been reset by a late login. *)
C12_Witness ==
    /\ resp.op = "Login" /\ resp.status = 200
    /\ Len(loginHistory) = MaxLogins
    /\ \A i \in 1..Len(loginHistory) : loginHistory[i].user_id = resp.user
    /\ loginHistory[MaxLogins - 1].login_time < FortyEightHours
    /\ loginHistory[MaxLogins].login_time
          >= loginHistory[MaxLogins - 1].login_time + FortyEightHours
    /\ \E i \in ActivityRows(userProgress, resp.user) :
          userProgress[i].streak_days = 1

-----------------------------------------------------------------------------
(* Properties of the Course Progress Tracker *)

CourseRows(table, userID, courseID) ==
    {i \in 1..Len(table) :
        table[i].user_id = userID /\ table[i].course_id = courseID}

(* The events applied for a user and a course, by their place in the log. *)
EventsOf(userID, courseID) ==
    {k \in 1..Len(courseEvents) :
        /\ courseEvents[k].user_id = userID
        /\ courseEvents[k].course_id = courseID}

RECURSIVE SumHours(_)
SumHours(places) ==
    IF places = {} THEN 0
    ELSE LET k == CHOOSE k \in places : TRUE IN
         courseEvents[k].hours_spent + SumHours(places \ {k})

(* x > k for a rational x and an integer k. *)
RatioGt(x, k) == x.n > k * x.d

(* A step that applies a progress event to a course. *)
EventApplied == resp'.op = "UpdateCourseProgress" /\ resp'.status # 404

(* The record of the user and course of the latest exchange. *)
CourseRow ==
    courseProgress[FirstOf(CourseRows(courseProgress, resp.user, resp.target))]
CourseRowAfter ==
    courseProgress'[FirstOf(CourseRows(courseProgress', resp'.user, resp'.target))]

(* C13: the first event of a user for a course adds the record, and what *)
(* is stored is the event applied to 0 lessons, 0 hours: the lesson if   *)
(* marked completed, the event's hours, and the rate of that one count.  *)
C13_FirstEventStartsFromZero ==
    [][(EventApplied /\ CourseRows(courseProgress, resp'.user, resp'.target) = {})
       => LET event == courseEvents'[Len(courseEvents')]
              row == courseProgress'[Len(courseProgress')]
              total == NumLessons(resp'.target)
          IN  /\ Len(courseProgress') = Len(courseProgress) + 1
              /\ SubSeq(courseProgress', 1, Len(courseProgress)) = courseProgress
              /\ row.user_id = resp'.user
              /\ row.course_id = resp'.target
              /\ row.lessons_completed = (IF event.mark_completed THEN 1 ELSE 0)
              /\ row.hours_spent = event.hours_spent
              /\ total > 0
                 => /\ IsNumber(row.completion_rate)
                    /\ row.completion_rate.n * total
                          = row.lessons_completed * 100 * row.completion_rate.d
      ]_vars

(* The one event of a user for a course of MaxLessons lessons, 2.5 hours *)
(* with the lesson completed, is stored as 1 lesson, 2.5 hours and the   *)
(* rate 100 / MaxLessons.                                                *)
C13_Witness ==
    /\ resp.op = "UpdateCourseProgress" /\ resp.status = 200
    /\ NumLessons(resp.target) = MaxLessons
    /\ Cardinality(EventsOf(resp.user, resp.target)) = 1
    /\ CourseRow.lessons_completed = 1
    /\ CourseRow.hours_spent = 5
    /\ CourseRow.completion_rate = Ratio(100, MaxLessons)

(* C14: every stored record counts the events of its user and course that *)
(* were marked completed, whichever lesson they name, and its hours_spent *)
(* is the sum of the hours of those events.                               *)
C14_RecordSumsItsEvents ==
    \A i \in 1..Len(courseProgress) :
       LET mine == EventsOf(courseProgress[i].user_id,
                            courseProgress[i].course_id) IN
       /\ courseProgress[i].lessons_completed
             = Cardinality({k \in mine : courseEvents[k].mark_completed})
       /\ courseProgress[i].hours_spent = SumHours(mine)

(* Two completions of the same lesson and one event without completion: *)
(* the record counts 2.                                                 *)
C14_Witness ==
    /\ resp.op = "UpdateCourseProgress"
    /\ \E i, j, k \in EventsOf(resp.user, resp.target) :
          /\ i < j
          /\ courseEvents[i].mark_completed /\ courseEvents[j].mark_completed
          /\ courseEvents[i].lesson_id = courseEvents[j].lesson_id
          /\ ~courseEvents[k].mark_completed
    /\ CourseRow.lessons_completed = 2

(* C15: the completion_rate of every stored record of a course that has *)
(* lessons is lessons_completed over the course's current number of     *)
(* lessons, times 100; stated of the rates that are numbers.            *)
C15_RateFollowsLessonCount ==
    \A i \in 1..Len(courseProgress) :
       LET total == NumLessons(courseProgress[i].course_id)
           rate == courseProgress[i].completion_rate
       IN  (total > 0 /\ IsNumber(rate))
           => rate.n * total = courseProgress[i].lessons_completed * 100 * rate.d

(* C16: no event with negative hours is applied and no stored hours_spent *)
(* is negative.                                                           *)
C16_HoursNeverNegative ==
    /\ \A k \in 1..Len(courseEvents) : courseEvents[k].hours_spent >= 0
    /\ \A i \in 1..Len(courseProgress) : courseProgress[i].hours_spent >= 0

(* C17: what is stored for a course without lessons is completion_rate 0 *)
(* and for a test without questions score 0.                             *)
C17_ZeroDenominatorStoresZero ==
    /\ \A i \in 1..Len(courseProgress) :
          NumLessons(courseProgress[i].course_id) = 0
          => courseProgress[i].completion_rate = Ratio(0, 1)
    /\ \A i \in 1..Len(testProgress) :
          NumQuestions(testProgress[i].test_id) = 0
          => testProgress[i].score = Ratio(0, 1)

-----------------------------------------------------------------------------
(* Properties of concurrent requests *)

(* The row a finishing request has written: the one it had read, or the *)
(* one its Save has inserted.                                           *)
WrittenRow(table, tableAfter, r) ==
    IF inflight[r].pid = 0 THEN tableAfter[Len(table) + 1]
    ELSE tableAfter[inflight[r].pid]

Finishes(r, op) ==
    /\ inflight[r].phase = "read"
    /\ inflight[r].op = op
    /\ inflight'[r] = Idle

(* C19: a request writes what it computed from the record it had read,    *)
(* whatever has been written to that record since: its lessons_completed  *)
(* is the one read plus the event's lesson, its attempts_used the one     *)
(* read plus one.  So of two requests that read the same record, one's    *)
(* update is lost.                                                        *)
C19_WritesFromTheRecordRead ==
    [][\A r \in Requests :
          /\ Finishes(r, "UpdateCourseProgress")
             => WrittenRow(courseProgress, courseProgress', r).lessons_completed
                   = inflight[r].progress.lessons_completed
                        + (IF inflight[r].body.mark_completed THEN 1 ELSE 0)
          /\ Finishes(r, "UpdateTestProgress")
             => WrittenRow(testProgress, testProgress', r).attempts_used
                   = inflight[r].progress.attempts_used + 1
      ]_vars

(* MaxEvents completions were applied to the one record of a user and a   *)
(* course, the first creating it: lessons_completed is one short of them. *)
(* Two submissions are in flight that have read the same stored record of *)
(* the test.                                                              *)
C19_Witness ==
    /\ Len(courseProgress) = 1
    /\ Len(courseEvents) = MaxEvents
    /\ \A k \in 1..Len(courseEvents) : courseEvents[k].mark_completed
    /\ courseProgress[1].lessons_completed = MaxEvents - 1
    /\ Len(testProgress) = 1
    /\ \E r1, r2 \in InFlight("UpdateTestProgress") :
          /\ r1 # r2
          /\ inflight[r1].pid = 1 /\ inflight[r2].pid = 1
          /\ inflight[r1].progress = testProgress[1]
          /\ inflight[r2].progress = testProgress[1]

(* C20: at most one user_course_progress row per user and course, at most *)
(* one user_test_progress row per user and test, at most one              *)
(* user_progress row per user.                                            *)
C20_OneRecordPerKey ==
    /\ \A i, j \in 1..Len(courseProgress) :
          (/\ courseProgress[i].user_id = courseProgress[j].user_id
           /\ courseProgress[i].course_id = courseProgress[j].course_id)
          => i = j
    /\ \A i, j \in 1..Len(testProgress) :
          (/\ testProgress[i].user_id = testProgress[j].user_id
           /\ testProgress[i].test_id = testProgress[j].test_id)
          => i = j
    /\ \A i, j \in 1..Len(userProgress) :
          userProgress[i].user_id = userProgress[j].user_id => i = j

(* Reports: one user logs in over the days of the run and reads the *)
(* monthly report.                                                   *)
NextReport ==
    \/ \E now1, now2, now3 \in clock..(clock + MaxJitter) :
          Login(UsernamePool[1], "secret", now1, now2, now3)
    \/ \E d \in TimeSteps : TimePasses(d)
    \/ GetProgress(1, clock)

SpecReport == InitCourse /\ [][NextReport]_vars

(* Completed courses: one user follows a course of one lesson, to which *)
(* its author adds lessons, and reads the reports and the course list.  *)
InitCompleted ==
    /\ users = RegisteredUsers(1)
    /\ tests = <<>>
    /\ questions = <<>>
    /\ accessSettings = <<>>
    /\ testProgress = <<>>
    /\ userProgress = <<>>
    /\ loginHistory = <<>>
    /\ clock = 0
    /\ resp = Response("none", 0, 0, 0)
    /\ courses = <<[author_id |-> 1]>>
    /\ lessons = <<[course_id |-> 1]>>
    /\ courseProgress = <<>>
    /\ courseEvents = <<>>
    /\ inflight = NoRequests

NextCompleted ==
    \/ \E markCompleted \in BOOLEAN :
          UpdateCourseProgress(1, 1, 1, 5, markCompleted, clock)
    \/ AddLesson(1, 1)
    \/ GetProgress(1, clock)
    \/ GetProgressOverview(1)
    \/ \E status \in StatusFilters : GetUserCourses(1, status)

SpecCompleted == InitCompleted /\ [][NextCompleted]_vars

-----------------------------------------------------------------------------
(* Login log *)

(* A step of a login that was accepted: the streak record of the user is *)
(* created or changed by it, which the passing of time never does.       *)
LoginAccepted ==
    /\ resp'.op = "Login" /\ resp'.status = 200
    /\ userProgress' # userProgress

(* C21: the login log is append-only. Every step leaves the entries stored *)
(* as they are, in their places; an accepted login adds exactly one entry, *)
(* after them, of the user logged in and of an instant read during the     *)
(* request; no other step adds one.                                        *)
C21_LoginLogAppendOnly ==
    [][/\ Len(loginHistory') >= Len(loginHistory)
       /\ SubSeq(loginHistory', 1, Len(loginHistory)) = loginHistory
       /\ LoginAccepted
             => /\ Len(loginHistory') = Len(loginHistory) + 1
                /\ loginHistory'[Len(loginHistory')].user_id = resp'.user
                /\ loginHistory'[Len(loginHistory')].login_time
                       \in clock..clock'
       /\ ~LoginAccepted => loginHistory' = loginHistory
      ]_vars

(* Two users logged in, one of them twice, at different instants: the log *)
(* holds the three entries in the order of the logins.                    *)
C21_Witness ==
    /\ resp.op = "Login" /\ resp.status = 200
    /\ Len(loginHistory) = MaxLogins
    /\ loginHistory[1].user_id # loginHistory[2].user_id
    /\ loginHistory[MaxLogins].user_id = loginHistory[1].user_id
    /\ loginHistory[1].login_time < loginHistory[2].login_time
    /\ loginHistory[2].login_time < loginHistory[MaxLogins].login_time

(* C29: a login that is refused, for an unknown username or for a wrong   *)
(* password, is answered 401 and writes nothing: the login log, the       *)
(* streak records (streak_days and last_active of every user) and the     *)
(* users are as before.                                                   *)
C29_RefusedLoginWritesNothing ==
    [][(resp'.op = "Login" /\ resp'.status = 401)
       => /\ loginHistory' = loginHistory
          /\ userProgress' = userProgress
          /\ users' = users
      ]_vars

(* Every username is registered, so the login refused had a wrong password; *)
(* the user logged in before and has a streak record of more than a day.    *)
C29_Witness ==
    /\ resp.op = "Login" /\ resp.status = 401
    /\ Len(users) = Cardinality(Usernames)
    /\ Len(loginHistory) >= 2
    /\ \E i \in 1..Len(userProgress) : userProgress[i].streak_days >= 2

-----------------------------------------------------------------------------
(* Monthly report *)

(* The logins of a user on a calendar day. *)
LoginsOn(history, userID, day) ==
    {j \in 1..Len(history) :
        /\ history[j].user_id = userID
        /\ FormatDate(Instant(history[j].login_time)) = day}

(* The days of a month on which the user logged in, each with the number *)
(* of the logins of that day.                                            *)
LoginsByDay(history, userID, year, month) ==
    LET days == {day \in {<<year, month, d>> : d \in 1..DaysIn(year, month)} :
                    LoginsOn(history, userID, day) # {}}
    IN [day \in days |-> Cardinality(LoginsOn(history, userID, day))]

(* C22: in every month of the report GetProgress answers with,            *)
(* login_frequency_by_day maps each date of the month, from its first day *)
(* to its last, on which the user logged in to the number of the user's   *)
(* logins of that date, and holds no other date.                          *)
C22_LoginFrequencyOfEveryDay ==
    [][resp'.op = "GetProgress"
       => \A i \in 1..Len(resp'.body) :
             resp'.body[i].login_frequency
                = LoginsByDay(loginHistory', resp'.user,
                              resp'.body[i].year, resp'.body[i].month)
      ]_vars

(* C23: GetProgress answers with four entries: the month of the current *)
(* date, then the three months before it, one after the other.          *)
C23_FourConsecutiveMonths ==
    [][(resp'.op = "GetProgress" /\ clock' <= clock + MaxJitter)
       => /\ Len(resp'.body) = 4
          /\ resp'.body[1].year = Civil(Instant(clock')).year
          /\ resp'.body[1].month = Civil(Instant(clock')).month
          /\ \A i \in 2..4 :
                MonthIndex(resp'.body[i].year, resp'.body[i].month)
                   = MonthIndex(resp'.body[i - 1].year,
                                resp'.body[i - 1].month) - 1
      ]_vars

-----------------------------------------------------------------------------
(* Completed courses *)

(* C30: the records the overview counts as completed are the records the  *)
(* 'completed' filter of the course list selects, those whose             *)
(* lessons_completed reached or passed the lesson count of their last     *)
(* update: the overview's count is the number of the records the filter   *)
(* selects, and the total of the filtered list is the number of records   *)
(* the overview counts.                                                   *)
C30_CompletedNotionsAgree ==
    [][/\ resp'.op = "GetProgressOverview"
             => resp'.body.total_courses_completed
                   = Cardinality(CoursesWithStatus(resp'.user, "completed"))
       /\ (resp'.op = "GetUserCourses" /\ resp'.body.status = "completed")
             => resp'.body.total = Cardinality(CoursesCompleted(resp'.user))
      ]_vars

-----------------------------------------------------------------------------
(* Later attempts *)

(* C28: a successful submission of a user who has a record for the test   *)
(* replaces questions_answered, correct_answers and score by the values   *)
(* of this submission: the number of its answers, the number of them that *)
(* are correct, and that number over the questions of the test. What the  *)
(* record held from earlier attempts has no part in them.                 *)
C28_LatestAttemptOverwrites ==
    [][(/\ resp'.op = "UpdateTestProgress" /\ resp'.status = 200
        /\ ProgressRows(testProgress, resp'.user, resp'.target) # {})
       => LET correct == Cardinality(Matches(resp'.answers, resp'.target)) IN
          /\ RowAfter.questions_answered = Len(resp'.answers)
          /\ RowAfter.correct_answers = correct
          /\ RowAfter.score = FloatPercent(correct, NumQuestions(resp'.target))
          /\ Len(testProgress') = Len(testProgress)
      ]_vars

(* The last attempt the run allows was graded for a test of MaxQuestions *)
(* questions: one answer, and a wrong one, is what the record holds.     *)
C28_Witness ==
    /\ Graded
    /\ NumQuestions(resp.target) = MaxQuestions
    /\ GradedRow.attempts_used = MaxAttempts
    /\ Len(resp.answers) = 1
    /\ GradedRow.questions_answered = 1
    /\ GradedRow.correct_answers = 0
    /\ GradedRow.score = Ratio(0, 1)

-----------------------------------------------------------------------------
(* Quota under concurrent submissions *)

(* C24: with attempts_allowed = N > 0 and the settings left alone, at most *)
(* N submissions of a user are accepted and graded, however the user's     *)
(* concurrent submissions interleave: a submission is graded and stored    *)
(* only while the record of the user holds fewer than N attempts. (Every   *)
(* attempt stored was accepted; with N = 1 a record exists exactly when a  *)
(* submission was accepted before.)                                        *)
C24_QuotaUnderInterleavings ==
    [][(testProgress' # testProgress
        /\ StoredAllowed(accessSettings, resp'.target) > 0)
       => StoredUsed(testProgress, resp'.user, resp'.target)
             < StoredAllowed(accessSettings, resp'.target)
      ]_vars

-----------------------------------------------------------------------------
(* Settings and questions *)

(* C25: the quota holds for every test that exists. A submission to a test *)
(* that has no settings row is graded and stored only while the user's     *)
(* record holds fewer attempts than a positive limit, the limit a test is  *)
(* created with; it is not unlimited.                                      *)
C25_QuotaWithoutSettingsRow ==
    [][(/\ resp'.op = "UpdateTestProgress" /\ resp'.status = 200
        /\ testProgress' # testProgress
        /\ FindSettings(resp'.target) = 0)
       => StoredUsed(testProgress, resp'.user, resp'.target)
             < DefaultAttemptsAllowed
      ]_vars

(* C26: UpdateTestSettings changes the settings its body holds only: a *)
(* request without attempts_allowed that is answered 200 leaves the    *)
(* stored attempts_allowed of the test as it was.                      *)
C26_AbsentQuotaLeftUnchanged ==
    [][(/\ resp'.op = "UpdateTestSettings" /\ resp'.status = 200
        /\ resp'.body.attempts_allowed = {})
       => StoredAllowed(accessSettings', resp'.target)
             = StoredAllowed(accessSettings, resp'.target)
      ]_vars

(* C27: whatever AddQuestion and UpdateQuestion requests were served, the *)
(* correct_answer of every stored question is an index into its options, *)
(* from 0 to the number of options less one; and an UpdateQuestion        *)
(* request without correct_answer that is answered 200 leaves the stored  *)
(* correct_answer of the question as it was.                              *)
C27_CorrectAnswerValidIndex ==
    [][/\ \A q \in 1..Len(questions') :
             /\ 0 <= questions'[q].correct_answer
             /\ questions'[q].correct_answer < questions'[q].options
       /\ (/\ resp'.op = "UpdateQuestion" /\ resp'.status = 200
           /\ resp'.body.correct_answer = {})
             => questions'[resp'.body.question_id].correct_answer
                   = questions[resp'.body.question_id].correct_answer
      ]_vars

====
